---- MODULE Spec2Model ----
(***************************************************************************)
(* A model of parser.py: the pipeline of main (read, locate, parse,        *)
(* filter, prefix, serialize, write) and the pure functions it is built    *)
(* from.                                                                   *)
(*                                                                         *)
(* A character is a TLA+ string naming it ("a", "&", "\n", "U+0001"); a    *)
(* Python str is a sequence of characters.  A Python dict is a sequence of *)
(* records [k, v] with pairwise distinct keys, in insertion order.         *)
(***************************************************************************)
EXTENDS Integers, Sequences, FiniteSets, TLC

VARIABLES
    pc,           \* position of main
    args,         \* argparse namespace: prefix, format, filter, output
    file,         \* the input file as the file system presents it
    html_content, \* main: text read from the input file
    table_html,   \* main: result of find_table_in_div
    entities,     \* main: the mapping (parsed, then filtered)
    prefixed,     \* main: the mapping with prefixed keys
    formatted,    \* main: the serialized document
    stdout,       \* characters written to standard output
    stderr,       \* messages logged to the error stream
    outfile,      \* the file named by --output
    exit_code,    \* process exit status, -1 while main runs
    f_entities,   \* filter_entities_by_class: the mapping passed in
    f_results,    \* filter_entities_by_class: the value returned, per class
    p_d,          \* prefix_dict_keys: the mapping passed in
    p_prefixes,   \* prefix_dict_keys: the two prefixes <<p1, p2>>
    p_results     \* prefix_dict_keys: the values returned

vars == <<pc, args, file, html_content, table_html, entities, prefixed,
          formatted, stdout, stderr, outfile, exit_code,
          f_entities, f_results, p_d, p_prefixes, p_results>>

mainVars == <<pc, args, file, html_content, table_html, entities, prefixed,
              formatted, stdout, stderr, outfile, exit_code>>
filterVars == <<f_entities, f_results>>
prefixVars == <<p_d, p_prefixes, p_results>>

(***************************************************************************)
(* Bounds of the model.                                                    *)
(***************************************************************************)
MaxRows == 2
MaxGlyphLen == 2
MaxPrefixLen == 1

(***************************************************************************)
(* Python values.                                                          *)
(***************************************************************************)
None == [none |-> TRUE]

\* All sequences over S of length at most n.
SeqUpTo(S, n) == UNION {[1..k -> S] : k \in 0..n}

Range(s) == {s[i] : i \in 1..Len(s)}

Last(s) == s[Len(s)]

\* str.join
RECURSIVE Join(_, _)
Join(parts, sep) ==
    IF parts = <<>> THEN <<>>
    ELSE IF Len(parts) = 1 THEN Head(parts)
    ELSE Head(parts) \o sep \o Join(Tail(parts), sep)

\* The lines of a document: its maximal pieces between line feeds.
RECURSIVE SplitLines(_, _)
SplitLines(s, cur) ==
    IF s = <<>> THEN <<cur>>
    ELSE IF Head(s) = "\n" THEN <<cur>> \o SplitLines(Tail(s), <<>>)
    ELSE SplitLines(Tail(s), Append(cur, Head(s)))

Lines(s) == SplitLines(s, <<>>)

\* str.isspace for one character: what str.strip() removes.
IsSpace(c) == c \in {" ", "\t", "\n", "\r"}

RECURSIVE LStrip(_)
LStrip(s) ==
    IF s # <<>> /\ IsSpace(Head(s)) THEN LStrip(Tail(s)) ELSE s

RECURSIVE RStrip(_)
RStrip(s) ==
    IF s # <<>> /\ IsSpace(Last(s)) THEN RStrip(SubSeq(s, 1, Len(s) - 1)) ELSE s

\* Seeded fault: str.lstrip() in place of str.strip().
StripLeftOnly(s) == LStrip(s)

\* str.strip()
Strip(s) == RStrip(LStrip(s))

StartsWith(s, prefix) ==
    /\ Len(s) >= Len(prefix)
    /\ SubSeq(s, 1, Len(prefix)) = prefix

\* Seeded fault: the test of the terminating ";" is dropped.
endswith_unchecked(s, suffix) == TRUE

\* str.endswith
endswith(s, suffix) ==
    /\ Len(s) >= Len(suffix)
    /\ SubSeq(s, Len(s) - Len(suffix) + 1, Len(s)) = suffix

(***************************************************************************)
(* dict                                                                    *)
(***************************************************************************)
Keys(d) == {d[i].k : i \in 1..Len(d)}

HasKey(d, key) == \E i \in 1..Len(d) : d[i].k = key

Get(d, key) == d[CHOOSE i \in 1..Len(d) : d[i].k = key].v

\* Seeded fault: dict.setdefault, a present key keeps its first value.
DictSetDefault(d, key, val) ==
    IF \E i \in 1..Len(d) : d[i].k = key THEN d
    ELSE Append(d, [k |-> key, v |-> val])

\* d[key] = val: a present key keeps its position and takes the new value,
\* a new key is appended.
DictSet(d, key, val) ==
    IF HasKey(d, key)
    THEN [i \in 1..Len(d) |->
            IF d[i].k = key THEN [k |-> key, v |-> val] ELSE d[i]]
    ELSE Append(d, [k |-> key, v |-> val])

IsDict(d) == \A i, j \in 1..Len(d) : d[i].k = d[j].k => i = j

(***************************************************************************)
(* html.unescape, for the character references of CharRefs.  The text is   *)
(* scanned left to right; at a "&" the longest reference that starts there *)
(* is replaced by its text, which is not scanned again.                    *)
(***************************************************************************)
CharRefs ==
    { [ref |-> <<"&", "a", "m", "p", ";">>, text |-> <<"&">>],
      [ref |-> <<"&", "a", "m", "p">>,      text |-> <<"&">>],
      [ref |-> <<"&", "l", "t", ";">>,      text |-> <<"<">>],
      [ref |-> <<"&", "#", "9", ";">>,      text |-> <<"\t">>],
      \* U+0001 is an invalid code point: the reference decodes to ''
      [ref |-> <<"&", "#", "1", ";">>,      text |-> <<>>] }

RefsAt(s) == {r \in CharRefs : StartsWith(s, r.ref)}

LongestRefAt(s) ==
    CHOOSE r \in RefsAt(s) : \A q \in RefsAt(s) : Len(q.ref) <= Len(r.ref)

RECURSIVE unescape(_)
unescape(s) ==
    IF s = <<>> THEN <<>>
    ELSE IF RefsAt(s) # {}
    THEN LET r == LongestRefAt(s)
         IN  r.text \o unescape(SubSeq(s, Len(r.ref) + 1, Len(s)))
    ELSE <<Head(s)>> \o unescape(Tail(s))

(***************************************************************************)
(* find_table_in_div.  A document is [div, tables]: whether it holds the   *)
(* div with id named-character-references-table, and the tables inside it. *)
(***************************************************************************)
find_table_in_div(content) ==
    IF ~content.div THEN None
    ELSE IF content.tables = <<>> THEN None
    ELSE Head(content.tables)

FindTableLog(content) ==
    IF ~content.div
    THEN <<"ERROR: Could not find div with id='named-character-references-table'.">>
    ELSE IF content.tables = <<>>
    THEN <<"ERROR: Could not find any table in the specified div.">>
    ELSE <<>>

(***************************************************************************)
(* parse_html_entities_table.  A table is [rows]; a row holds the text of  *)
(* its three cells: name (inside <code>), unicode (second cell), glyph     *)
(* (inside <span>).                                                        *)
(***************************************************************************)
\* [^<]+ : one or more characters, none of them "<"
NoTagText(s) == s # <<>> /\ "<" \notin Range(s)

\* the row pattern of re.findall
MatchesPattern(row) ==
    /\ NoTagText(row.name)
    /\ NoTagText(row.unicode)
    /\ NoTagText(row.glyph)

findall(table) == SelectSeq(table.rows, MatchesPattern)

RECURSIVE ParseLoop(_, _)
ParseLoop(matches, ents) ==
    IF matches = <<>> THEN ents
    ELSE LET entity_name == Strip(Head(matches).name)
         IN  IF ~endswith(entity_name, <<";">>)
             THEN ParseLoop(Tail(matches), ents)
             ELSE ParseLoop(Tail(matches),
                            DictSet(ents, entity_name,
                                    unescape(Head(matches).glyph)))

parse_html_entities_table(table) == ParseLoop(findall(table), <<>>)

(***************************************************************************)
(* is_printable and filter_entities_by_class                               *)
(***************************************************************************)
\* ord()
Ord(c) ==
    CASE c = "U+0001" -> 1
      [] c = "\t"     -> 9
      [] c = "\n"     -> 10
      [] c = "\r"     -> 13
      [] c = "\""     -> 34
      [] c = "&"      -> 38
      [] c = "<"      -> 60
      [] c = "x"      -> 120
      [] c = "U+00AD" -> 173

\* unicodedata.category()
Category(c) ==
    CASE c = "U+0001" -> "Cc"
      [] c = "\t"     -> "Cc"
      [] c = "\n"     -> "Cc"
      [] c = "\r"     -> "Cc"
      [] c = "\""     -> "Po"
      [] c = "&"      -> "Po"
      [] c = "<"      -> "Sm"
      [] c = "x"      -> "Ll"
      [] c = "U+00AD" -> "Cf"

\* Seeded fault: the allow-list of tab, line feed and carriage return is
\* consulted before the category.
is_printable_allowlist_first(char) ==
    IF char \in {"\t", "\n", "\r"} THEN TRUE
    ELSE IF Category(char) \in {"Cc", "Cf", "Cs", "Co", "Cn"} THEN FALSE
    ELSE IF Ord(char) < 32 THEN FALSE
    ELSE TRUE

is_printable(char) ==
    IF Category(char) \in {"Cc", "Cf", "Cs", "Co", "Cn"} THEN FALSE
    ELSE IF Ord(char) < 32 /\ char \notin {"\t", "\n", "\r"} THEN FALSE
    ELSE TRUE

\* all(is_printable(c) for c in v)
AllPrintable(v) == \A i \in 1..Len(v) : is_printable(v[i])

\* Seeded fault: all(not is_printable(c) for c in v).
AllUnprintable(v) == \A i \in 1..Len(v) : ~is_printable(v[i])

\* any(not is_printable(c) for c in v)
AnyUnprintable(v) == \E i \in 1..Len(v) : ~is_printable(v[i])

\* the condition of the dict comprehension of each class
Keeps(filter_class, v) ==
    IF filter_class = "printable" THEN AllPrintable(v) ELSE AnyUnprintable(v)

\* Seeded fault: a kept entry is put in front of the ones kept before it.
RECURSIVE FilterLoopPrepending(_, _, _)
FilterLoopPrepending(d, filter_class, acc) ==
    IF d = <<>> THEN acc
    ELSE FilterLoopPrepending(
             Tail(d), filter_class,
             IF (IF filter_class = "printable"
                 THEN \A i \in 1..Len(Head(d).v) : is_printable(Head(d).v[i])
                 ELSE \E i \in 1..Len(Head(d).v) : ~is_printable(Head(d).v[i]))
             THEN <<Head(d)>> \o acc
             ELSE acc)

\* {k: v for k, v in entities.items() if ...}
RECURSIVE FilterLoop(_, _, _)
FilterLoop(d, filter_class, acc) ==
    IF d = <<>> THEN acc
    ELSE FilterLoop(Tail(d), filter_class,
                    IF Keeps(filter_class, Head(d).v)
                    THEN DictSet(acc, Head(d).k, Head(d).v)
                    ELSE acc)

filter_entities_by_class(ents, filter_class) ==
    IF filter_class = "printable" THEN FilterLoop(ents, "printable", <<>>)
    ELSE IF filter_class = "unprintable" THEN FilterLoop(ents, "unprintable", <<>>)
    ELSE ents

(***************************************************************************)
(* prefix_dict_keys                                                        *)
(***************************************************************************)
RECURSIVE PrefixLoop(_, _, _)
PrefixLoop(d, prefix, acc) ==
    IF d = <<>> THEN acc
    ELSE PrefixLoop(Tail(d), prefix,
                    DictSet(acc, prefix \o Head(d).k, Head(d).v))

\* Seeded fault: f"{k}{prefix}", the prefix put behind the key.
suffix_dict_keys(d, prefix) ==
    [i \in 1..Len(d) |-> [k |-> d[i].k \o prefix, v |-> d[i].v]]

prefix_dict_keys(d, prefix) == PrefixLoop(d, prefix, <<>>)

(***************************************************************************)
(* json.dumps(..., ensure_ascii=False) and get_espanso_package_yml         *)
(***************************************************************************)
JsonEscape(c) ==
    CASE c = "\""     -> <<"\\", "\"">>
      [] c = "\\"     -> <<"\\", "\\">>
      [] c = "\n"     -> <<"\\", "n">>
      [] c = "\r"     -> <<"\\", "r">>
      [] c = "\t"     -> <<"\\", "t">>
      [] c = "U+0001" -> <<"\\", "u", "0", "0", "0", "1">>
      [] OTHER        -> <<c>>

RECURSIVE JsonEscapeAll(_)
JsonEscapeAll(s) ==
    IF s = <<>> THEN <<>> ELSE JsonEscape(Head(s)) \o JsonEscapeAll(Tail(s))

\* json.dumps of a str
json_dumps_str(s) == <<"\"">> \o JsonEscapeAll(s) \o <<"\"">>

JsonItem(e) ==
    <<" ", " ">> \o json_dumps_str(e.k) \o <<":", " ">> \o json_dumps_str(e.v)

\* json.dumps of a dict with indent=2
json_dumps_dict(d) ==
    IF d = <<>> THEN <<"{", "}">>
    ELSE <<"{", "\n">>
         \o Join([i \in 1..Len(d) |-> JsonItem(d[i])], <<",", "\n">>)
         \o <<"\n", "}">>

TriggerText == <<"-", " ", "t", "r", "i", "g", "g", "e", "r", ":", " ">>
ReplaceText == <<" ", " ", "r", "e", "p", "l", "a", "c", "e", ":", " ">>
MatchesText == <<"m", "a", "t", "c", "h", "e", "s", ":">>

RECURSIVE EspansoLoop(_, _)
EspansoLoop(d, output) ==
    IF d = <<>> THEN output
    ELSE EspansoLoop(Tail(d),
                     output \o << TriggerText \o Head(d).k,
                                  ReplaceText \o json_dumps_str(Head(d).v) >>)

get_espanso_package_yml(d) == Join(EspansoLoop(d, <<MatchesText>>), <<"\n">>)

(***************************************************************************)
(* The inputs of a run.                                                    *)
(***************************************************************************)
Row(name, glyph) == [name |-> name, unicode |-> <<"U">>, glyph |-> glyph]

\* Rows a table may hold: names with and without the terminating ";", with
\* surrounding whitespace, without the leading "&", with a line feed inside;
\* glyphs literal, escaped, decoding to nothing, a control character, and an
\* empty <span>, which the row pattern does not match.
RowCandidates ==
    { Row(<<"&", "a", ";">>,            <<"x">>),
      Row(<<" ", "&", "a", ";", " ">>,  <<"&", "a", "m", "p", ";">>),
      Row(<<"&", "a">>,                 <<"x">>),
      Row(<<"b", ";">>,                 <<"U+0001">>),
      Row(<<"&", "a", "\n", "b", ";">>, <<"\"">>),
      Row(<<"&", "b", ";">>,            <<"&", "#", "1", ";">>),
      Row(<<"&", "b", ";">>,            <<>>) }

Tables == {[rows |-> r] : r \in SeqUpTo(RowCandidates, MaxRows)}

Documents ==
    {[div |-> FALSE, tables |-> <<>>], [div |-> TRUE, tables |-> <<>>]}
    \cup {[div |-> TRUE, tables |-> <<t>>] : t \in Tables}

NoDocument == [div |-> FALSE, tables |-> <<>>]

Files ==
    {[exists |-> FALSE, readable |-> FALSE, content |-> NoDocument],
     [exists |-> TRUE,  readable |-> FALSE, content |-> NoDocument]}
    \cup {[exists |-> TRUE, readable |-> TRUE, content |-> c] : c \in Documents}

Arguments ==
    [prefix : {<<":">>, <<>>},
     format : {"json", "espanso"},
     filter : {"None", "printable", "unprintable"},
     output : {"None", "out"}]

NotCalled == [called |-> FALSE, value |-> <<>>]
Returned(v) == [called |-> TRUE, value |-> v]

FilterClasses == {"printable", "unprintable", "None"}

FilterIdle ==
    /\ f_entities = <<>>
    /\ f_results = [c \in FilterClasses |-> NotCalled]

PrefixIdle ==
    /\ p_d = <<>>
    /\ p_prefixes = <<<<>>, <<>>>>
    /\ p_results = [first |-> NotCalled, twice |-> NotCalled,
                    concat |-> NotCalled, reversed |-> NotCalled]

MainIdle ==
    /\ pc = "idle"
    /\ args = [prefix |-> <<":">>, format |-> "espanso", filter |-> "None",
               output |-> "None"]
    /\ file = [exists |-> FALSE, readable |-> FALSE, content |-> NoDocument]
    /\ html_content = NoDocument
    /\ table_html = None
    /\ entities = <<>>
    /\ prefixed = <<>>
    /\ formatted = <<>>
    /\ stdout = <<>>
    /\ stderr = <<>>
    /\ outfile = [status |-> "absent", content |-> <<>>]
    /\ exit_code = -1

(***************************************************************************)
(* main                                                                    *)
(***************************************************************************)
Init ==
    /\ pc = "start"
    /\ args \in Arguments
    /\ file \in Files
    /\ html_content = NoDocument
    /\ table_html = None
    /\ entities = <<>>
    /\ prefixed = <<>>
    /\ formatted = <<>>
    /\ stdout = <<>>
    /\ stderr = <<>>
    /\ outfile = [status |-> "absent", content |-> <<>>]
    /\ exit_code = -1
    /\ FilterIdle
    /\ PrefixIdle

\* logger.error(...); sys.exit(1)
ExitError(messages) ==
    /\ stderr' = stderr \o messages
    /\ exit_code' = 1
    /\ pc' = "done"

\* if not os.path.exists(args.input_file)
CheckExists ==
    /\ pc = "start"
    /\ IF ~file.exists
       THEN ExitError(<<"ERROR: File not found.">>)
       ELSE /\ pc' = "read"
            /\ UNCHANGED <<stderr, exit_code>>
    /\ UNCHANGED <<args, file, html_content, table_html, entities, prefixed,
                   formatted, stdout, outfile>>
    /\ UNCHANGED <<filterVars, prefixVars>>

\* with open(args.input_file) as f: html_content = f.read()
ReadFile ==
    /\ pc = "read"
    /\ IF ~file.readable
       THEN /\ ExitError(<<"ERROR: Error reading file">>)
            /\ UNCHANGED html_content
       ELSE /\ html_content' = file.content
            /\ pc' = "locate"
            /\ UNCHANGED <<stderr, exit_code>>
    /\ UNCHANGED <<args, file, table_html, entities, prefixed, formatted,
                   stdout, outfile>>
    /\ UNCHANGED <<filterVars, prefixVars>>

\* table_html = find_table_in_div(html_content)
Locate ==
    /\ pc = "locate"
    /\ table_html' = find_table_in_div(html_content)
    /\ IF table_html' = None
       THEN ExitError(FindTableLog(html_content)
                      \o <<"ERROR: Could not find any table in the HTML file.">>)
       ELSE /\ pc' = "parse"
            /\ UNCHANGED <<stderr, exit_code>>
    /\ UNCHANGED <<args, file, html_content, entities, prefixed, formatted,
                   stdout, outfile>>
    /\ UNCHANGED <<filterVars, prefixVars>>

\* Seeded fault: main without the test for an empty mapping.
ParseUnchecked ==
    /\ pc = "parse"
    /\ entities' = parse_html_entities_table(table_html)
    /\ pc' = "filter"
    /\ stderr' = Append(stderr, "INFO: Parsed HTML entities")
    /\ UNCHANGED <<args, file, html_content, table_html, prefixed, formatted,
                   stdout, outfile, exit_code>>
    /\ UNCHANGED <<filterVars, prefixVars>>

\* entities = parse_html_entities_table(table_html); if not entities: exit
Parse ==
    /\ pc = "parse"
    /\ entities' = parse_html_entities_table(table_html)
    /\ IF entities' = <<>>
       THEN ExitError(<<"ERROR: No entities found in the table.">>)
       ELSE /\ pc' = "filter"
            /\ stderr' = Append(stderr, "INFO: Parsed HTML entities")
            /\ UNCHANGED exit_code
    /\ UNCHANGED <<args, file, html_content, table_html, prefixed, formatted,
                   stdout, outfile>>
    /\ UNCHANGED <<filterVars, prefixVars>>

\* Seeded fault: main tests for an empty mapping again after filtering.
FilterThenCheck ==
    /\ pc = "filter"
    /\ entities' = IF args.filter # "None"
                   THEN filter_entities_by_class(entities, args.filter)
                   ELSE entities
    /\ IF entities' = <<>>
       THEN ExitError(<<"ERROR: No entities found in the table.">>)
       ELSE /\ pc' = "prefix"
            /\ stderr' = Append(stderr, "INFO: After filtering")
            /\ UNCHANGED exit_code
    /\ UNCHANGED <<args, file, html_content, table_html, prefixed, formatted,
                   stdout, outfile>>
    /\ UNCHANGED <<filterVars, prefixVars>>

\* if args.filter: entities = filter_entities_by_class(entities, args.filter)
Filter ==
    /\ pc = "filter"
    /\ IF args.filter # "None"
       THEN /\ entities' = filter_entities_by_class(entities, args.filter)
            /\ stderr' = Append(stderr, "INFO: After filtering")
       ELSE UNCHANGED <<entities, stderr>>
    /\ pc' = "prefix"
    /\ UNCHANGED <<args, file, html_content, table_html, prefixed, formatted,
                   stdout, outfile, exit_code>>
    /\ UNCHANGED <<filterVars, prefixVars>>

\* prefixed = prefix_dict_keys(entities, args.prefix)
Prefix ==
    /\ pc = "prefix"
    /\ prefixed' = prefix_dict_keys(entities, args.prefix)
    /\ pc' = "format"
    /\ UNCHANGED <<args, file, html_content, table_html, entities, formatted,
                   stdout, stderr, outfile, exit_code>>
    /\ UNCHANGED <<filterVars, prefixVars>>

\* formatted = json.dumps(prefixed, ...) or get_espanso_package_yml(prefixed)
Format ==
    /\ pc = "format"
    /\ IF args.format = "json"
       THEN /\ formatted' = json_dumps_dict(prefixed)
            /\ pc' = "write"
            /\ UNCHANGED <<stderr, exit_code>>
       ELSE IF args.format = "espanso"
       THEN /\ formatted' = get_espanso_package_yml(prefixed)
            /\ pc' = "write"
            /\ UNCHANGED <<stderr, exit_code>>
       ELSE /\ ExitError(<<"ERROR: Unsupported format">>)
            /\ UNCHANGED formatted
    /\ UNCHANGED <<args, file, html_content, table_html, entities, prefixed,
                   stdout, outfile>>
    /\ UNCHANGED <<filterVars, prefixVars>>

\* The write of the result: to the file named by --output, which the file
\* system accepts or refuses, or to standard output with a line break.
\* Falling off the end of main exits with status 0.
Write ==
    /\ pc = "write"
    /\ IF args.output # "None"
       THEN \E ok \in BOOLEAN :
              IF ok
              THEN /\ outfile' = [status |-> "written", content |-> formatted]
                   /\ stderr' = Append(stderr, "INFO: Output written")
                   /\ exit_code' = 0
                   /\ pc' = "done"
              ELSE /\ outfile' = [status |-> "error", content |-> <<>>]
                   /\ ExitError(<<"ERROR: Error writing output file">>)
       ELSE /\ exit_code' = 0
            /\ pc' = "done"
            /\ UNCHANGED <<outfile, stderr>>
    /\ stdout' = IF args.output # "None" THEN stdout
                 ELSE stdout \o formatted \o <<"\n">>
    /\ UNCHANGED <<args, file, html_content, table_html, entities, prefixed,
                   formatted>>
    /\ UNCHANGED <<filterVars, prefixVars>>

Next ==
    \/ CheckExists
    \/ ReadFile
    \/ Locate
    \/ Parse
    \/ Filter
    \/ Prefix
    \/ Format
    \/ Write

Spec == Init /\ [][Next]_vars

(***************************************************************************)
(* filter_entities_by_class called on its own, on any mapping: each class  *)
(* is applied to the same mapping and what it returns is recorded.         *)
(***************************************************************************)
GlyphChars == {"x", "\t", "\n", "\r", "U+0001", "U+00AD"}

Glyphs == SeqUpTo(GlyphChars, MaxGlyphLen)

EntityNames == {<<"&", "a", ";">>, <<"&", "b", ";">>}

\* every dict with keys among names and values among values
Mappings(names, values) ==
    {d \in SeqUpTo([k : names, v : values], Cardinality(names)) : IsDict(d)}

InitFilter ==
    /\ f_entities \in Mappings(EntityNames, Glyphs)
    /\ f_results = [c \in FilterClasses |-> NotCalled]
    /\ MainIdle
    /\ PrefixIdle

CallFilter ==
    /\ \E c \in FilterClasses :
         /\ ~f_results[c].called
         /\ f_results' = [f_results EXCEPT
                            ![c] = Returned(filter_entities_by_class(f_entities, c))]
    /\ UNCHANGED f_entities
    /\ UNCHANGED <<mainVars, prefixVars>>

NextFilter == CallFilter

SpecFilter == InitFilter /\ [][NextFilter]_vars

(***************************************************************************)
(* prefix_dict_keys called on its own: with p1, then on that result with   *)
(* p2, and in one call with each concatenation of the two prefixes.        *)
(***************************************************************************)
PrefixChars == {":", "x"}

Prefixes == SeqUpTo(PrefixChars, MaxPrefixLen)

InitPrefix ==
    /\ p_d \in Mappings(EntityNames, {<<"x">>})
    /\ p_prefixes \in Prefixes \X Prefixes
    /\ p_results = [first |-> NotCalled, twice |-> NotCalled,
                    concat |-> NotCalled, reversed |-> NotCalled]
    /\ MainIdle
    /\ FilterIdle

\* prefix_dict_keys(d, p1)
PrefixFirst ==
    /\ ~p_results.first.called
    /\ p_results' = [p_results EXCEPT
                       !.first = Returned(prefix_dict_keys(p_d, p_prefixes[1]))]
    /\ UNCHANGED <<p_d, p_prefixes>>
    /\ UNCHANGED <<mainVars, filterVars>>

\* prefix_dict_keys(prefix_dict_keys(d, p1), p2)
PrefixSecond ==
    /\ p_results.first.called
    /\ ~p_results.twice.called
    /\ p_results' = [p_results EXCEPT
                       !.twice = Returned(prefix_dict_keys(p_results.first.value,
                                                           p_prefixes[2]))]
    /\ UNCHANGED <<p_d, p_prefixes>>
    /\ UNCHANGED <<mainVars, filterVars>>

\* prefix_dict_keys(d, p1 + p2)
PrefixConcat ==
    /\ ~p_results.concat.called
    /\ p_results' = [p_results EXCEPT
                       !.concat = Returned(prefix_dict_keys(
                                      p_d, p_prefixes[1] \o p_prefixes[2]))]
    /\ UNCHANGED <<p_d, p_prefixes>>
    /\ UNCHANGED <<mainVars, filterVars>>

\* prefix_dict_keys(d, p2 + p1)
PrefixReversed ==
    /\ ~p_results.reversed.called
    /\ p_results' = [p_results EXCEPT
                       !.reversed = Returned(prefix_dict_keys(
                                        p_d, p_prefixes[2] \o p_prefixes[1]))]
    /\ UNCHANGED <<p_d, p_prefixes>>
    /\ UNCHANGED <<mainVars, filterVars>>

NextPrefix ==
    \/ PrefixFirst
    \/ PrefixSecond
    \/ PrefixConcat
    \/ PrefixReversed

SpecPrefix == InitPrefix /\ [][NextPrefix]_vars

(***************************************************************************)
(* Notions the properties are stated with.                                 *)
(***************************************************************************)
Min(S) == CHOOSE x \in S : \A y \in S : x <= y
Max(S) == CHOOSE x \in S : \A y \in S : y <= x

\* s without its leading and trailing whitespace: the piece of s from its
\* first to its last non-whitespace character.
Trimmed(s) ==
    LET solid == {i \in 1..Len(s) : ~IsSpace(s[i])}
    IN  IF solid = {} THEN <<>> ELSE SubSeq(s, Min(solid), Max(solid))

Terminated(name) == name # <<>> /\ name[Len(name)] = ";"

\* The rows of the table main located, as the row pattern yields them.
RawRows == IF table_html = None THEN <<>> ELSE findall(table_html)

TerminatedIdx == {i \in 1..Len(RawRows) : Terminated(Trimmed(RawRows[i].name))}
LegacyIdx == {i \in 1..Len(RawRows) : ~Terminated(Trimmed(RawRows[i].name))}

TerminatedNames == {Trimmed(RawRows[i].name) : i \in TerminatedIdx}

\* parse_html_entities_table has returned and entities holds its result.
ParseReturned ==
    \/ pc = "filter"
    \/ /\ pc = "done"
       /\ stderr # <<>>
       /\ Last(stderr) = "ERROR: No entities found in the table."

\* The elements of m at the indices of I, in order.
RECURSIVE PickFrom(_, _, _)
PickFrom(m, I, i) ==
    IF i > Len(m) THEN <<>>
    ELSE (IF i \in I THEN <<m[i]>> ELSE <<>>) \o PickFrom(m, I, i + 1)

Pick(m, I) == PickFrom(m, I, 1)

(***************************************************************************)
(* C1                                                                      *)
(***************************************************************************)
\* C1, as claimed: after parsing a table with N matched rows whose trimmed
\* name ends with ";" and M whose trimmed name does not, the mapping has
\* exactly N entries.
C1_ExactlyNEntries ==
    ParseReturned => Len(entities) = Cardinality(TerminatedIdx)

\* C1, amended: the mapping has one entry per distinct trimmed terminated
\* name, so exactly N entries when the N terminated rows have pairwise
\* distinct trimmed names and fewer when a name repeats; a row with a
\* non-terminated name is never inserted.
C1_OneEntryPerTerminatedName ==
    ParseReturned =>
        /\ IsDict(entities)
        /\ Keys(entities) = TerminatedNames
        /\ Len(entities) = Cardinality(TerminatedNames)
        /\ \A i \in LegacyIdx : Trimmed(RawRows[i].name) \notin Keys(entities)
        /\ (\A i, j \in TerminatedIdx :
               Trimmed(RawRows[i].name) = Trimmed(RawRows[j].name) => i = j)
           => Len(entities) = Cardinality(TerminatedIdx)

\* A table with terminated and legacy rows has been parsed, one terminated
\* name needing the trim.
C1_Witness ==
    /\ pc = "filter"
    /\ TerminatedIdx # {}
    /\ LegacyIdx # {}
    /\ \E i \in TerminatedIdx : RawRows[i].name # Trimmed(RawRows[i].name)

(***************************************************************************)
(* C2                                                                      *)
(***************************************************************************)
InputMissing == ~file.exists
InputUnreadable == file.exists /\ ~file.readable
TableNotFound ==
    /\ file.exists /\ file.readable
    /\ (~file.content.div \/ file.content.tables = <<>>)
ZeroEntities ==
    /\ file.exists /\ file.readable
    /\ file.content.div /\ file.content.tables # <<>>
    /\ LET rows == file.content.tables[1].rows
       IN  \A i \in 1..Len(rows) :
              MatchesPattern(rows[i]) => ~Terminated(Trimmed(rows[i].name))
WriteFailed == outfile.status = "error"

Failure ==
    InputMissing \/ InputUnreadable \/ TableNotFound \/ ZeroEntities \/ WriteFailed

\* C2: a run with a missing or unreadable input, no container or table, zero
\* parsed entities or a failed output write ends with exit code 1; a run
\* that ends with exit code 1 has written nothing to standard output; a run
\* ends with exit code 0 only when none of these failures occurred; and
\* until it has exited main can always take its next step.
C2_ExitCodes ==
    /\ pc = "done" => exit_code \in {0, 1}
    /\ pc # "done" => exit_code = -1 /\ ENABLED Next
    /\ (pc = "done" /\ Failure) => exit_code = 1
    /\ exit_code = 1 => stdout = <<>>
    /\ exit_code = 0 => ~Failure

\* The latest failure: everything was computed, the output write failed.
C2_Witness ==
    /\ pc = "done"
    /\ exit_code = 1
    /\ WriteFailed
    /\ formatted # <<>>

(***************************************************************************)
(* C3                                                                      *)
(***************************************************************************)
\* C3: the printable and the unprintable filter of a mapping together hold
\* every entry of it, they share no entry unless its glyph is empty, and an
\* entry with an empty glyph is in the printable one.
C3_FilterTotality ==
    (f_results["printable"].called /\ f_results["unprintable"].called) =>
        LET P == Range(f_results["printable"].value)
            U == Range(f_results["unprintable"].value)
        IN  \A e \in Range(f_entities) :
               /\ e \in P \/ e \in U
               /\ (e \in P /\ e \in U) => e.v = <<>>
               /\ e.v = <<>> => e \in P

\* Both filters were applied to a mapping with an empty glyph and a glyph
\* that mixes a printable and a non-printable character.
C3_Witness ==
    /\ f_results["printable"].called
    /\ f_results["unprintable"].called
    /\ \E e \in Range(f_entities) : e.v = <<>>
    /\ \E e \in Range(f_entities) : e.v = <<"x", "U+0001">>

(***************************************************************************)
(* C4                                                                      *)
(***************************************************************************)
\* C4, as claimed: prefixing with p1 and then with p2 gives the keys of one
\* application with p1 + p2.
C4_TwiceIsConcat ==
    (p_results.twice.called /\ p_results.concat.called) =>
        Keys(p_results.twice.value) = Keys(p_results.concat.value)

\* C4, amended: prefixing with p1 and then with p2 gives the keys of one
\* application with p2 + p1, the second prefix in front.
C4_TwiceIsReversedConcat ==
    (p_results.twice.called /\ p_results.reversed.called) =>
        Keys(p_results.twice.value) = Keys(p_results.reversed.value)

\* Two different non-empty prefixes were applied to a non-empty mapping,
\* one after the other and in one call.
C4_Witness ==
    /\ p_results.twice.called
    /\ p_results.reversed.called
    /\ Len(p_d) = 2
    /\ p_prefixes[1] # <<>>
    /\ p_prefixes[2] # <<>>
    /\ p_prefixes[1] # p_prefixes[2]

(***************************************************************************)
(* C5                                                                      *)
(***************************************************************************)
\* C5, as claimed: in a successful run every key of the final mapping is the
\* prefix followed by the trimmed name of a matched row, and that name
\* begins with "&" and ends with ";".
C5_KeysPrefixedAmpersandNames ==
    exit_code = 0 =>
        \A key \in Keys(prefixed) :
            \E i \in 1..Len(RawRows) :
                LET name == Trimmed(RawRows[i].name)
                IN  /\ key = args.prefix \o name
                    /\ Terminated(name)
                    /\ name[1] = "&"

\* C5, amended: in a successful run every key of the final mapping is the
\* prefix followed by the trimmed name of a matched row, and that name ends
\* with ";" (nothing checks that it begins with "&"); every entity of the
\* mapping appears under its prefixed name.
C5_KeysPrefixedTerminatedNames ==
    exit_code = 0 =>
        /\ \A key \in Keys(prefixed) :
               \E i \in 1..Len(RawRows) :
                   LET name == Trimmed(RawRows[i].name)
                   IN  /\ key = args.prefix \o name
                       /\ Terminated(name)
        /\ Keys(prefixed) = {args.prefix \o name : name \in Keys(entities)}

\* A successful run with the default prefix whose table holds a terminated
\* name without the leading "&" beside one with it.
C5_Witness ==
    /\ exit_code = 0
    /\ args.prefix = <<":">>
    /\ <<":", "b", ";">> \in Keys(prefixed)
    /\ <<":", "&", "a", ";">> \in Keys(prefixed)

(***************************************************************************)
(* C6                                                                      *)
(***************************************************************************)
\* main holds the document get_espanso_package_yml returned.
EspansoFormatted ==
    /\ pc \in {"write", "done"}
    /\ formatted # <<>>
    /\ args.format = "espanso"

EspansoShape ==
    LET doc == Lines(formatted)
        N == Len(prefixed)
    IN  /\ Len(doc) = 1 + 2 * N
        /\ doc[1] = MatchesText
        /\ \A k \in 1..N :
              /\ doc[2 * k] = TriggerText \o prefixed[k].k
              /\ doc[2 * k + 1] = ReplaceText \o json_dumps_str(prefixed[k].v)

\* C6: the espanso document of a final mapping of N entries has exactly
\* 1 + 2N lines: "matches:", then for the k-th entry the line
\* "- trigger: <key>" and the line "  replace: <json-quoted glyph>".
C6_EspansoTwoLinesPerEntry == EspansoFormatted => EspansoShape

\* What the code does keep: the shape holds whenever no key holds a line
\* feed, and the glyphs are quoted onto one line each.
C6_ShapeWithoutLineFeedInKeys ==
    (EspansoFormatted /\ \A key \in Keys(prefixed) : "\n" \notin Range(key))
        => EspansoShape

(***************************************************************************)
(* C7                                                                      *)
(***************************************************************************)
RowsNamed(name) == {i \in TerminatedIdx : Trimmed(RawRows[i].name) = name}

\* C7: for a terminated name that occurs in one or more rows the mapping
\* holds exactly one entry, and its glyph is the decoded glyph of the last
\* such row.
C7_LaterRowWins ==
    ParseReturned =>
        \A name \in TerminatedNames :
            /\ Cardinality({i \in 1..Len(entities) : entities[i].k = name}) = 1
            /\ Get(entities, name) = unescape(RawRows[Max(RowsNamed(name))].glyph)

\* A table whose rows repeat a name with different decoded glyphs.
C7_Witness ==
    /\ pc = "filter"
    /\ \E i, j \in TerminatedIdx :
          /\ i < j
          /\ Trimmed(RawRows[i].name) = Trimmed(RawRows[j].name)
          /\ unescape(RawRows[i].glyph) # unescape(RawRows[j].glyph)

(***************************************************************************)
(* C8                                                                      *)
(***************************************************************************)
PrintableIdx(m) ==
    {i \in 1..Len(m) : \A j \in 1..Len(m[i].v) : is_printable(m[i].v[j])}

\* C8: the printable filter returns exactly the entries whose glyph has
\* every character printable, the unprintable filter exactly the entries
\* whose glyph has a non-printable character, no filter the mapping itself;
\* the kept entries are those of the input, key and glyph, in its order.
C8_FilterKeepsExactly ==
    /\ f_results["printable"].called =>
          f_results["printable"].value = Pick(f_entities, PrintableIdx(f_entities))
    /\ f_results["unprintable"].called =>
          f_results["unprintable"].value =
              Pick(f_entities, (1..Len(f_entities)) \ PrintableIdx(f_entities))
    /\ f_results["None"].called => f_results["None"].value = f_entities

\* Every class was applied to a mapping of two entries, one of them the
\* single control character U+0001, and the printable filter kept one.
C8_Witness ==
    /\ \A c \in FilterClasses : f_results[c].called
    /\ Len(f_entities) = 2
    /\ f_entities[1].v = <<"U+0001">>
    /\ f_results["unprintable"].value = <<f_entities[1]>>
    /\ f_results["printable"].value = <<f_entities[2]>>

(***************************************************************************)
(* C9                                                                      *)
(***************************************************************************)
\* C9: a character is printable exactly when its general category is none
\* of Cc, Cf, Cs, Co, Cn, so tab, line feed and carriage return are not
\* printable: an entry whose glyph holds one of them is dropped by the
\* printable filter and kept by the unprintable filter.
C9_CategoryDecides ==
    \A e \in Range(f_entities) :
        /\ \A c \in Range(e.v) :
              is_printable(c) <=> Category(c) \notin {"Cc", "Cf", "Cs", "Co", "Cn"}
        /\ Range(e.v) \cap {"\t", "\n", "\r"} # {} =>
              /\ f_results["printable"].called =>
                    e \notin Range(f_results["printable"].value)
              /\ f_results["unprintable"].called =>
                    e \in Range(f_results["unprintable"].value)

\* Both filters were applied to a mapping with a tab and a carriage return
\* among otherwise printable glyphs.
C9_Witness ==
    /\ f_results["printable"].called
    /\ f_results["unprintable"].called
    /\ \E e \in Range(f_entities) : e.v = <<"x", "\t">>
    /\ \E e \in Range(f_entities) : e.v = <<"\r">>

(***************************************************************************)
(* C10                                                                     *)
(***************************************************************************)
\* The table held an entity and the filter removed every entry.
FilteredToNothing ==
    /\ pc \in {"prefix", "format", "write", "done"}
    /\ TerminatedIdx # {}
    /\ entities = <<>>

\* C10: when the parsed mapping is non-empty and the filter removes every
\* entry the run does not fail: it prefixes and serializes the empty
\* mapping, writes the bare "matches:" header or "{}", and exits with 0
\* (unless the write to the output file fails).
C10_EmptyAfterFilterSucceeds ==
    FilteredToNothing =>
        /\ args.filter # "None"
        /\ pc # "done" => exit_code = -1
        /\ pc \in {"format", "write", "done"} => prefixed = <<>>
        /\ pc \in {"write", "done"} =>
              formatted = IF args.format = "json" THEN <<"{", "}">>
                          ELSE MatchesText
        /\ (pc = "done" /\ ~WriteFailed) =>
              /\ exit_code = 0
              /\ IF args.output = "None"
                 THEN stdout = formatted \o <<"\n">>
                 ELSE outfile = [status |-> "written", content |-> formatted]

\* A run whose only entity is a control character, filtered for printable
\* glyphs, has written the bare header to standard output and exited 0.
C10_Witness ==
    /\ FilteredToNothing
    /\ pc = "done"
    /\ exit_code = 0
    /\ args.filter = "printable"
    /\ stdout = MatchesText \o <<"\n">>

====
